---- MODULE Spec2Model ----
(***************************************************************************)
(* Ekf::fuseVelPosHeight (src/EKF/vel_pos_fusion.cpp): fusion of the       *)
(* velocity, horizontal position and height observations into the 24-state *)
(* filter, with innovation gating, the sequential scalar Kalman update,    *)
(* the covariance health guard and the reject / fault / last-fuse ledger.  *)
(*                                                                         *)
(* The source's floats are exact rationals <<n, d>> with d > 0 in lowest   *)
(* terms, the zeros <<0, 1>> and <<0, -1>>, the infinities <<1, 0>> and    *)
(* <<-1, 0>>, and NaN <<0, 0>>; rounding and overflow are not modelled.    *)
(***************************************************************************)
EXTENDS Integers, Sequences, FiniteSets, TLC

\* _k_num_states (loop bound at lines 256, 263, 273, 328)
k_num_states == 24

States == 0 .. (k_num_states - 1)
\* observation slots [VN,VE,VD,PN,PE,PD] (lines 52-57)
Obs == 0 .. 5

\* number of calls of fuseVelPosHeight explored in one behaviour
MaxTicks == 2

(***************************************************************************)
(* float arithmetic                                                        *)
(***************************************************************************)
RECURSIVE gcd(_, _)
gcd(a, b) == IF b = 0 THEN a ELSE gcd(b, a % b)

iabs(a) == IF a < 0 THEN -a ELSE a

\* the float n/d for integers n, d that are not both 0: a rational in lowest
\* terms with a positive denominator when d # 0 (+0 when n = 0), +infinity
\* <<1, 0>> or -infinity <<-1, 0>> when d = 0
Q(n, d) ==
    LET g == gcd(iabs(n), iabs(d))
        s == IF d < 0 THEN -1 ELSE 1
    IN  <<(s * n) \div g, (s * d) \div g>>

\* +0 and -0 (equal under ==, <, <=; they differ as divisors), 1 and NaN
Zero == <<0, 1>>
NegZero == <<0, -1>>
One == <<1, 1>>
NaN == <<0, 0>>

isnan(a) == a[1] = 0 /\ a[2] = 0

\* a is +0 or -0
iszero(a) == a[1] = 0 /\ a[2] # 0

\* the sign bit of a (a not NaN)
signbit(a) == a[1] < 0 \/ (a[1] = 0 /\ a[2] < 0)

\* the zero and the infinity with sign bit s
zero(s) == IF s THEN NegZero ELSE Zero
inf(s) == IF s THEN <<-1, 0>> ELSE <<1, 0>>

\* a + b in round-to-nearest: infinity + -infinity and anything + NaN are
\* NaN, an exact zero sum is +0 unless both operands are -0
add(a, b) ==
    IF a[2] = 0 \/ b[2] = 0
    THEN (IF isnan(a) \/ isnan(b) THEN NaN
          ELSE IF a[2] # 0 THEN b
          ELSE IF b[2] # 0 \/ a = b THEN a
          ELSE NaN)
    ELSE IF a[1] = 0 THEN (IF b[1] = 0 THEN zero(a[2] < 0 /\ b[2] < 0) ELSE b)
    ELSE IF b[1] = 0 THEN a
    ELSE IF a[1] * b[2] + b[1] * a[2] = 0 THEN Zero
    ELSE Q(a[1] * b[2] + b[1] * a[2], a[2] * b[2])

neg(a) == IF a[1] = 0 THEN <<0, -a[2]>> ELSE <<-a[1], a[2]>>

sub(a, b) == add(a, neg(b))

\* a * b; 0 * infinity and anything * NaN are NaN, a zero product carries
\* the product of the signs
mul(a, b) ==
    IF a[1] = 0 \/ b[1] = 0
    THEN (IF a[2] = 0 \/ b[2] = 0 THEN NaN ELSE zero(signbit(a) # signbit(b)))
    ELSE Q(a[1] * b[1], a[2] * b[2])

\* a / b; 0 / 0 and infinity / infinity are NaN, a / 0 is an infinity and
\* 0 / b, a / infinity a zero with the quotient of the signs
div(a, b) ==
    IF isnan(a) \/ isnan(b) THEN NaN
    ELSE IF iszero(b) THEN (IF iszero(a) THEN NaN ELSE inf(signbit(a) # signbit(b)))
    ELSE IF b[2] = 0 THEN (IF a[2] = 0 THEN NaN ELSE zero(signbit(a) # signbit(b)))
    ELSE IF a[1] = 0 THEN zero(signbit(a) # signbit(b))
    ELSE IF b[1] < 0 THEN Q(-(a[1] * b[2]), a[2] * (-b[1]))
    ELSE Q(a[1] * b[2], a[2] * b[1])

\* the denominator of a with the sign of a zero taken off
den(a) == IF a[2] < 0 THEN 1 ELSE a[2]

\* a < b; false when either is NaN
lt(a, b) ==
    IF a[2] = 0 /\ b[2] = 0 THEN (~isnan(a) /\ ~isnan(b) /\ a[1] < b[1])
    ELSE a[1] * den(b) < b[1] * den(a)

\* a <= b; false when either is NaN
le(a, b) ==
    IF a[2] = 0 /\ b[2] = 0 THEN (~isnan(a) /\ ~isnan(b) /\ a[1] <= b[1])
    ELSE IF isnan(a) \/ isnan(b) THEN FALSE
    ELSE a[1] * den(b) <= b[1] * den(a)

sq(a) == mul(a, a)

\* fmaxf(a, b): the other argument when one is NaN
fmaxf(a, b) == IF isnan(a) THEN b ELSE IF lt(a, b) THEN b ELSE a

\* math::max(val1, val2): (val1 > val2) ? val1 : val2
max(val1, val2) == IF lt(val2, val1) THEN val1 ELSE val2

\* math::constrain(val, min, max)
constrain(val, lo, hi) == IF lt(val, lo) THEN lo ELSE IF lt(hi, val) THEN hi ELSE val

(***************************************************************************)
(* Ekf members read or written by fuseVelPosHeight                        *)
(***************************************************************************)
VARIABLES
    P,                      \* covariance, P[row][column]
    x,                      \* _state as a 24-vector; x[9] is _state.pos(2)
    fuse_hor_vel, fuse_hor_vel_aux, fuse_vert_vel, fuse_pos, fuse_height,
    fuse_hpos_as_odom,
    control_status,         \* _control_status.flags
    params,                 \* _params
    samples,                \* delayed sensor samples and the height offsets
    velObsVarNE, hvelInnovGate, posObsNoiseNE, posInnovGateNE,
    R_rng_to_earth_2_2,
    vel_pos_innov, aux_vel_innov, vel_pos_innov_var, vel_pos_test_ratio,
    time_last_imu,
    time_last_vel_fuse, time_last_pos_fuse, time_last_delpos_fuse,
    time_last_hgt_fuse,
    innov_check_fail_status, \* reject_vel_NED, reject_pos_NE, reject_pos_D
    fault_status,            \* bad_vel_N .. bad_pos_D
    jake_debug_topic,        \* static orb_advert_t of line 160: advertised yet?
    \* locals of the running call
    fuse_map, innov_check_pass_map, R, gate_size, innovation, obs_index,
    pc,                      \* "idle", "entry", "loop", "return"
    \* history: values on entry to the running call, what the loop did with
    \* each slot, and the number of calls made
    entry, outcome, ticks

requests == <<fuse_hor_vel, fuse_hor_vel_aux, fuse_vert_vel, fuse_pos, fuse_height>>
tuning == <<params, samples, velObsVarNE, hvelInnovGate, posObsNoiseNE,
            posInnovGateNE, R_rng_to_earth_2_2, fuse_hpos_as_odom, control_status,
            aux_vel_innov, time_last_imu>>
stamps == <<time_last_vel_fuse, time_last_pos_fuse, time_last_delpos_fuse,
            time_last_hgt_fuse>>
published == <<vel_pos_innov, vel_pos_innov_var, vel_pos_test_ratio>>
locals == <<fuse_map, innov_check_pass_map, R, gate_size, innovation>>

vars == <<P, x, requests, tuning, stamps, published, innov_check_fail_status,
          fault_status, jake_debug_topic, locals, obs_index, pc, entry, outcome,
          ticks>>

(***************************************************************************)
(* Observation assembly, lines 60-157                                      *)
(***************************************************************************)
\* variant: the gps branch of line 126 tested before the baro branch of line 100
HgtSourceGpsFirst ==
    IF control_status.gps_hgt THEN "gps"
    ELSE IF control_status.baro_hgt THEN "baro"
    ELSE IF control_status.rng_hgt
            /\ lt(params.range_cos_max_tilt, R_rng_to_earth_2_2) THEN "rng"
    ELSE IF control_status.ev_hgt THEN "ev"
    ELSE "none"

\* the if / else-if chain of lines 100, 126, 139, 148: first match wins
HgtSource ==
    IF control_status.baro_hgt THEN "baro"
    ELSE IF control_status.gps_hgt THEN "gps"
    ELSE IF control_status.rng_hgt
            /\ lt(params.range_cos_max_tilt, R_rng_to_earth_2_2) THEN "rng"
    ELSE IF control_status.ev_hgt THEN "ev"
    ELSE "none"

\* fuse_map[k] as set by lines 63, 79, 91, 101, 127, 140, 149
FuseMap(k) ==
    CASE k \in {0, 1} -> fuse_hor_vel \/ fuse_hor_vel_aux
      [] k = 2 -> fuse_vert_vel
      [] k \in {3, 4} -> fuse_pos
      [] k = 5 -> fuse_height /\ HgtSource # "none"

\* variant: line 118 with -= in place of +=
DeadzoneSubtracts(v) ==
    LET deadzone_start == Zero
        deadzone_end == add(deadzone_start, params.gnd_effect_deadzone)
    IN  IF control_status.gnd_effect /\ lt(v, neg(deadzone_start))
        THEN IF le(v, neg(deadzone_end)) THEN sub(v, deadzone_end)
             ELSE neg(deadzone_start)
        ELSE v

\* ground effect deadzone on the baro innovation, lines 112-124
Deadzone(v) ==
    LET deadzone_start == Zero
        deadzone_end == add(deadzone_start, params.gnd_effect_deadzone)
    IN  IF control_status.gnd_effect /\ lt(v, neg(deadzone_start))
        THEN IF le(v, neg(deadzone_end)) THEN add(v, deadzone_end)
             ELSE neg(deadzone_start)
        ELSE v

\* innovation[5] as height source src computes it from the down position
\* pos_d, lines 103-124, 129, 142, 151
HgtInnovOf(src, pos_d) ==
    CASE src = "baro" ->
            Deadzone(sub(sub(add(pos_d, samples.baro_hgt), samples.baro_hgt_offset),
                         samples.hgt_sensor_offset))
      [] src = "gps" ->
            sub(sub(add(pos_d, samples.gps_hgt), samples.gps_alt_ref),
                samples.hgt_sensor_offset)
      [] src = "rng" ->
            sub(sub(pos_d, neg(max(mul(samples.rng, R_rng_to_earth_2_2),
                                   params.rng_gnd_clearance))),
                samples.hgt_sensor_offset)
      [] src = "ev" -> sub(pos_d, samples.ev_posNED2)
      [] OTHER -> vel_pos_innov[5]

\* innovation[5] of the selected height source
HgtInnov == HgtInnovOf(HgtSource, x[9])

\* the local innovation[k] after lines 58, 66-69 and the height branch
Innovation(k) ==
    IF k \in {0, 1} /\ (fuse_hor_vel \/ fuse_hor_vel_aux) /\ ~fuse_hor_vel
    THEN aux_vel_innov[k + 1]
    ELSE IF k = 5 /\ fuse_height THEN HgtInnov
    ELSE vel_pos_innov[k]

\* R[5] as height source src sets it, lines 105-106, 132-135, 144, 153-154
HgtObsVarOf(src) ==
    CASE src = "baro" -> sq(fmaxf(params.baro_noise, Q(1, 100)))
      [] src = "gps" ->
            LET lower_limit == fmaxf(params.gps_pos_noise, Q(1, 100))
                upper_limit == fmaxf(params.pos_noaid_noise, lower_limit)
            IN  sq(mul(Q(3, 2), constrain(samples.gps_vacc, lower_limit, upper_limit)))
      [] src = "rng" ->
            fmaxf(mul(add(sq(params.range_noise),
                          sq(mul(params.range_noise_scaler, samples.rng))),
                      sq(R_rng_to_earth_2_2)),
                  Q(1, 100))
      [] src = "ev" -> sq(fmaxf(samples.ev_posErr, Q(1, 100)))
      [] OTHER -> Zero

\* R[5] of the selected height source
HgtObsVar == HgtObsVarOf(HgtSource)

\* the local R[k], lines 54, 72-73, 81-84, 94 and the height branch
ObsVar(k) ==
    IF ~FuseMap(k) THEN Zero
    ELSE CASE k \in {0, 1} -> velObsVarNE[k + 1]
           [] k = 2 -> sq(mul(Q(3, 2), fmaxf(fmaxf(params.gps_vel_noise, Q(1, 100)),
                                             samples.gps_sacc)))
           [] k \in {3, 4} -> sq(posObsNoiseNE)
           [] k = 5 -> HgtObsVar

\* gate_size[5] as height source src sets it, lines 108, 137, 146, 156
HgtGateOf(src) ==
    CASE src \in {"baro", "gps"} -> fmaxf(params.baro_innov_gate, One)
      [] src = "rng" -> fmaxf(params.range_innov_gate, One)
      [] src = "ev" -> fmaxf(params.ev_innov_gate, One)
      [] OTHER -> Zero

\* gate_size[5] of the selected height source
HgtGate == HgtGateOf(HgtSource)

\* the local gate_size[k], lines 55, 74, 86, 95 and the height branch
GateSize(k) ==
    IF ~FuseMap(k) THEN Zero
    ELSE CASE k \in {0, 1} -> hvelInnovGate
           [] k = 2 -> fmaxf(params.vel_innov_gate, One)
           [] k \in {3, 4} -> posInnovGateNE
           [] k = 5 -> HgtGate

\* variant: the whole local innovation[] is copied back at line 182
PublishedInnovAll == [k \in Obs |-> Innovation(k)]

\* _vel_pos_innov after line 182
PublishedInnov ==
    IF fuse_height THEN [vel_pos_innov EXCEPT ![5] = Innovation(5)]
    ELSE vel_pos_innov

(***************************************************************************)
(* Innovation gate, lines 185-206                                          *)
(***************************************************************************)
\* _vel_pos_innov_var[k] after the loop of lines 186-195
InnovVar(k) ==
    IF FuseMap(k) THEN add(P[k + 4][k + 4], ObsVar(k)) ELSE vel_pos_innov_var[k]

\* _vel_pos_test_ratio[k] after the loop of lines 186-195
TestRatio(k) ==
    IF FuseMap(k)
    THEN div(sq(Innovation(k)), mul(sq(GateSize(k)), InnovVar(k)))
    ELSE vel_pos_test_ratio[k]

\* lines 201-202, on the test ratios tr the loop left
vel_check_pass(tr) == le(tr[0], One) /\ le(tr[1], One) /\ le(tr[2], One)

\* variant: line 204 without `|| !_control_status.flags.tilt_align`
pos_check_pass_aligned(tr) == le(tr[3], One) /\ le(tr[4], One)

\* line 204
pos_check_pass(tr) ==
    (le(tr[3], One) /\ le(tr[4], One)) \/ ~control_status.tilt_align

\* line 206
hgt_check_pass(tr) == le(tr[5], One) \/ ~control_status.tilt_align

\* innov_check_pass_map after lines 203, 205, 206
InnovCheckPassMap(tr) ==
    [k \in Obs |->
        CASE k \in {0, 1, 2} -> vel_check_pass(tr)
          [] k \in {3, 4} -> pos_check_pass(tr)
          [] k = 5 -> hgt_check_pass(tr)]

(***************************************************************************)
(* Health and timing ledger, lines 208-245                                 *)
(***************************************************************************)
\* variant: line 209 without `&& vel_check_pass`, a requested velocity fusion
\* is recorded as successful whatever the gate said
VelLedgerStampsRejected(pass) ==
    IF fuse_hor_vel \/ fuse_hor_vel_aux \/ fuse_vert_vel
    THEN [time |-> time_last_imu, reject |-> FALSE]
    ELSE IF ~pass
    THEN [time |-> time_last_vel_fuse, reject |-> TRUE]
    ELSE [time |-> time_last_vel_fuse,
          reject |-> innov_check_fail_status.reject_vel_NED]

\* variant: lines 213-215 left out, a failed velocity gate is not recorded
VelLedgerNeverRejects(pass) ==
    IF (fuse_hor_vel \/ fuse_hor_vel_aux \/ fuse_vert_vel) /\ pass
    THEN [time |-> time_last_imu, reject |-> FALSE]
    ELSE [time |-> time_last_vel_fuse,
          reject |-> innov_check_fail_status.reject_vel_NED]

\* lines 209-215: _time_last_vel_fuse and reject_vel_NED
VelLedger(pass) ==
    IF (fuse_hor_vel \/ fuse_hor_vel_aux \/ fuse_vert_vel) /\ pass
    THEN [time |-> time_last_imu, reject |-> FALSE]
    ELSE IF ~pass
    THEN [time |-> time_last_vel_fuse, reject |-> TRUE]
    ELSE [time |-> time_last_vel_fuse,
          reject |-> innov_check_fail_status.reject_vel_NED]

\* variant: line 220 without `&& _fuse_pos`, a passing gate stamps the ledger
\* whether or not position fusion was requested
PosLedgerUnrequested(pass) ==
    IF pass
    THEN [pos |-> IF ~fuse_hpos_as_odom THEN time_last_imu ELSE time_last_pos_fuse,
          delpos |-> IF ~fuse_hpos_as_odom THEN time_last_delpos_fuse
                     ELSE time_last_imu,
          reject |-> FALSE]
    ELSE [pos |-> time_last_pos_fuse, delpos |-> time_last_delpos_fuse,
          reject |-> TRUE]

\* variant: lines 221-226 without the test of _fuse_hpos_as_odom, both
\* position timestamps are stamped
PosLedgerStampsBoth(pass) ==
    IF pass /\ fuse_pos
    THEN [pos |-> time_last_imu, delpos |-> time_last_imu, reject |-> FALSE]
    ELSE IF ~pass
    THEN [pos |-> time_last_pos_fuse, delpos |-> time_last_delpos_fuse,
          reject |-> TRUE]
    ELSE [pos |-> time_last_pos_fuse, delpos |-> time_last_delpos_fuse,
          reject |-> innov_check_fail_status.reject_pos_NE]

\* lines 220-232: _time_last_pos_fuse, _time_last_delpos_fuse, reject_pos_NE
PosLedger(pass) ==
    IF pass /\ fuse_pos
    THEN [pos |-> IF ~fuse_hpos_as_odom THEN time_last_imu ELSE time_last_pos_fuse,
          delpos |-> IF ~fuse_hpos_as_odom THEN time_last_delpos_fuse
                     ELSE time_last_imu,
          reject |-> FALSE]
    ELSE IF ~pass
    THEN [pos |-> time_last_pos_fuse, delpos |-> time_last_delpos_fuse,
          reject |-> TRUE]
    ELSE [pos |-> time_last_pos_fuse, delpos |-> time_last_delpos_fuse,
          reject |-> innov_check_fail_status.reject_pos_NE]

\* lines 237-243: _time_last_hgt_fuse and reject_pos_D
HgtLedger(pass) ==
    IF pass /\ fuse_height
    THEN [time |-> time_last_imu, reject |-> FALSE]
    ELSE IF ~pass
    THEN [time |-> time_last_hgt_fuse, reject |-> TRUE]
    ELSE [time |-> time_last_hgt_fuse,
          reject |-> innov_check_fail_status.reject_pos_D]

\* variant: line 245 left out, the height request survives the call
RequestsHeightKept ==
    [fuse_hor_vel |-> FALSE, fuse_hor_vel_aux |-> FALSE, fuse_vert_vel |-> FALSE,
     fuse_pos |-> FALSE, fuse_height |-> fuse_height]

\* lines 217, 234, 245: the one-shot requests as the ledger leaves them
ClearedRequests ==
    [fuse_hor_vel |-> FALSE, fuse_hor_vel_aux |-> FALSE, fuse_vert_vel |-> FALSE,
     fuse_pos |-> FALSE, fuse_height |-> FALSE]

(***************************************************************************)
(* Sequential updater, lines 247-340                                       *)
(***************************************************************************)
\* variant: line 249 without `|| !innov_check_pass_map[obs_index]`
RECURSIVE NextSlotUngated(_, _, _)
NextSlotUngated(fm, pm, k) ==
    IF k > 5 THEN 6
    ELSE IF fm[k] THEN k
    ELSE NextSlotUngated(fm, pm, k + 1)

\* first slot at or after k that the loop does not skip (line 249), 6 if none
RECURSIVE NextSlot(_, _, _)
NextSlot(fm, pm, k) ==
    IF k > 5 THEN 6
    ELSE IF fm[k] /\ pm[k] THEN k
    ELSE NextSlot(fm, pm, k + 1)

ZeroRow == [column \in States |-> Zero]

\* variant: the gain numerators are read from the covariance seen on entry
KfusionFromEntry(Pm, k) ==
    [row \in States |-> div(entry.P[row][k + 4], vel_pos_innov_var[k])]

\* lines 256-258
Kfusion(Pm, k) ==
    [row \in States |-> div(Pm[row][k + 4], vel_pos_innov_var[k])]

\* lines 261-267
KHPof(Pm, K, k) ==
    LET positive == \A column \in States :
                        Pm[k + 4][column][2] > 0 /\ Pm[k + 4][column][1] >= 0
    IN  [row \in States |->
            IF K[row] = Zero /\ positive THEN ZeroRow
            ELSE [column \in States |-> mul(K[row], Pm[k + 4][column])]]

\* zeroRows(cov_mat, first, last)
zeroRows(Pm, first, last) ==
    [row \in States |-> [column \in States |->
        IF first <= row /\ row <= last THEN Zero ELSE Pm[row][column]]]

\* zeroCols(cov_mat, first, last)
zeroCols(Pm, first, last) ==
    [row \in States |-> [column \in States |->
        IF first <= column /\ column <= last THEN Zero ELSE Pm[row][column]]]

\* variant: the branch for obs_index == 4 writes bad_pos_D
SetFaultPosDTwice(fs, k, v) ==
    CASE k = 0 -> [fs EXCEPT !.bad_vel_N = v]
      [] k = 1 -> [fs EXCEPT !.bad_vel_E = v]
      [] k = 2 -> [fs EXCEPT !.bad_vel_D = v]
      [] k = 3 -> [fs EXCEPT !.bad_pos_N = v]
      [] k = 4 -> [fs EXCEPT !.bad_pos_D = v]
      [] k = 5 -> [fs EXCEPT !.bad_pos_D = v]

\* the fault flag of observation obs_index, lines 283-300 and 304-321
SetFault(fs, k, v) ==
    CASE k = 0 -> [fs EXCEPT !.bad_vel_N = v]
      [] k = 1 -> [fs EXCEPT !.bad_vel_E = v]
      [] k = 2 -> [fs EXCEPT !.bad_vel_D = v]
      [] k = 3 -> [fs EXCEPT !.bad_pos_N = v]
      [] k = 4 -> [fs EXCEPT !.bad_pos_E = v]
      [] k = 5 -> [fs EXCEPT !.bad_pos_D = v]

FaultOf(fs, k) ==
    CASE k = 0 -> fs.bad_vel_N
      [] k = 1 -> fs.bad_vel_E
      [] k = 2 -> fs.bad_vel_D
      [] k = 3 -> fs.bad_pos_N
      [] k = 4 -> fs.bad_pos_E
      [] k = 5 -> fs.bad_pos_D

\* the test of line 274
GuardFails(Pm, KHP, i) == lt(Pm[i][i], KHP[i][i])

\* lines 275-300: index i failed the test
Collapse(st, k, i) ==
    [P |-> zeroCols(zeroRows(st.P, i, i), i, i),
     healthy |-> FALSE,
     fault |-> SetFault(st.fault, k, TRUE)]

\* lines 302-321: index i passed the test
Passed(st, k) ==
    [P |-> st.P, healthy |-> st.healthy, fault |-> SetFault(st.fault, k, FALSE)]

\* the loop of lines 271-323 from index i on; st holds P, the local
\* `healthy` and _fault_status as the earlier indices left them
RECURSIVE HealthLoop(_, _, _, _)
HealthLoop(st, KHP, k, i) ==
    IF i >= k_num_states THEN st
    ELSE IF GuardFails(st.P, KHP, i)
    THEN HealthLoop(Collapse(st, k, i), KHP, k, i + 1)
    ELSE HealthLoop(Passed(st, k), KHP, k, i + 1)

\* fixCovarianceErrors(): force symmetry, clamp negative variances to zero
fixCovarianceErrors(Pm) ==
    [row \in States |-> [column \in States |->
        IF row = column THEN (IF lt(Pm[row][row], Zero) THEN Zero ELSE Pm[row][row])
        ELSE IF Pm[row][column] = Pm[column][row] THEN Pm[row][column]
        ELSE mul(Q(1, 2), add(Pm[row][column], Pm[column][row]))]]

\* fuse(K, innovation): the state correction
fuse(xv, K, innov) ==
    [i \in States |-> add(xv[i], mul(K[i], innov))]

\* lines 326-335: the covariance after the health loop
CorrectCovariance(Pm, KHP, healthy) ==
    IF healthy
    THEN fixCovarianceErrors(
            [row \in States |->
                IF KHP[row] = ZeroRow THEN Pm[row]
                ELSE [column \in States |-> sub(Pm[row][column], KHP[row][column])]])
    ELSE Pm

\* variant: line 326 left out for the state correction
CorrectStateUnguarded(xv, K, innov, healthy) == fuse(xv, K, innov)

\* lines 326, 338: the state after the health loop
CorrectState(xv, K, innov, healthy) ==
    IF healthy THEN fuse(xv, K, innov) ELSE xv

(***************************************************************************)
(* Inputs: what the prediction step and the sensor pipeline hand over      *)
(***************************************************************************)
\* a symmetric covariance: unit variances except `small`, zero covariances
\* except the pairs in `corr` (triples <<i, j, value>>)
SymCov(small, corr) ==
    [row \in States |-> [column \in States |->
        IF row = column
        THEN IF row \in small THEN Q(1, 10) ELSE One
        ELSE IF \E t \in corr : {t[1], t[2]} = {row, column}
        THEN (CHOOSE t \in corr : {t[1], t[2]} = {row, column})[3]
        ELSE Zero]]

\* positive definite: every update is healthy
CovHealthy == SymCov({}, {<<0, 9, Q(1, 4)>>, <<4, 9, Q(1, 2)>>, <<5, 7, Q(1, 2)>>})

\* not positive semi-definite (|correlation| > 1 for the pairs with states
\* 3, 10 and 23): slot 0 trips the guard at index 10, slot 5 at 3 and 23
CovDegenerate ==
    SymCov({3, 10, 23},
           {<<0, 9, Q(1, 4)>>, <<5, 7, Q(1, 2)>>, <<4, 10, One>>,
            <<3, 9, One>>, <<9, 23, One>>})

\* CovHealthy after the guard of lines 274-277 collapsed the horizontal
\* position states 7 and 8
CovCollapsed == zeroCols(zeroRows(CovHealthy, 7, 8), 7, 8)

\* predicted state: velocity north 1, position down -10
StateZero == [i \in States |-> IF i = 4 THEN One ELSE IF i = 9 THEN Q(-10, 1) ELSE Zero]

Two == Q(2, 1)

\* What one tick hands to the routine besides the request flags: the
\* innovations of slots 0..4 and of the auxiliary pair (1 gives a test ratio
\* of 1/2, 2 a test ratio of 2), the baro sample (11 and 12 give a height
\* innovation of 1 and 2), the covariance, and the control flags.
Nominal ==
    [tilt_align |-> TRUE, innov |-> <<One, One, One, One, One>>, aux |-> <<One, One>>,
     baro |-> Q(11, 1), cov |-> CovHealthy, odom |-> FALSE,
     baro_hgt |-> TRUE, rng_hgt |-> FALSE, cos_tilt |-> One]

\* outliers in slots 1, 2, 4 and 5; the auxiliary pair is fine
Outliers ==
    [Nominal EXCEPT !.innov = <<One, Two, Two, One, Two>>, !.baro = Q(12, 1),
                    !.odom = TRUE]

\* before tilt alignment: outliers in slots 4 and 5 and in the auxiliary
\* pair, and an ill-conditioned covariance
Unaligned ==
    [Nominal EXCEPT !.tilt_align = FALSE, !.innov = <<One, One, One, One, Two>>,
                    !.aux = <<Two, One>>, !.baro = Q(12, 1), !.cov = CovDegenerate,
                    !.odom = TRUE]

\* range height selected, tilted beyond range_cos_max_tilt
RangeTilted ==
    [Nominal EXCEPT !.baro_hgt = FALSE, !.rng_hgt = TRUE, !.cos_tilt = Q(1, 2)]

\* no height source selected
NoHgtSource == [Nominal EXCEPT !.baro_hgt = FALSE]

\* the height source matters only to a tick that requests height fusion
Profiles(height_requested) ==
    {Nominal, Outliers, Unaligned}
        \cup (IF height_requested THEN {RangeTilted, NoHgtSource} ELSE {})

\* tuning with which every R is 1 (range: 1/100) and every gate 1
ParamsNominal ==
    [gps_vel_noise |-> Q(1, 2), vel_innov_gate |-> One,
     baro_noise |-> One, baro_innov_gate |-> One,
     gps_pos_noise |-> Q(1, 2), pos_noaid_noise |-> Q(10, 1),
     range_noise |-> Q(1, 10), range_noise_scaler |-> Zero,
     rng_gnd_clearance |-> Q(1, 10), range_cos_max_tilt |-> Q(7, 10),
     range_innov_gate |-> One, ev_innov_gate |-> One,
     gnd_effect_deadzone |-> Q(1, 2)]

\* samples 1 m off the predicted height of 10 m, accuracies 2/3
SamplesNominal ==
    [gps_hgt |-> Q(11, 1), gps_sacc |-> Q(2, 3), gps_vacc |-> Q(2, 3),
     baro_hgt |-> Q(11, 1), rng |-> Q(10, 1),
     ev_posNED2 |-> Q(-11, 1), ev_posErr |-> One,
     baro_hgt_offset |-> Zero, gps_alt_ref |-> Zero,
     hgt_sensor_offset |-> Zero]

NoFaults ==
    [bad_vel_N |-> FALSE, bad_vel_E |-> FALSE, bad_vel_D |-> FALSE,
     bad_pos_N |-> FALSE, bad_pos_E |-> FALSE, bad_pos_D |-> FALSE]

NoCall == [called |-> FALSE]

Init ==
    /\ P = CovHealthy
    /\ x = StateZero
    /\ fuse_hor_vel = FALSE /\ fuse_hor_vel_aux = FALSE /\ fuse_vert_vel = FALSE
    /\ fuse_pos = FALSE /\ fuse_height = FALSE /\ fuse_hpos_as_odom = FALSE
    /\ control_status =
            [baro_hgt |-> TRUE, gps_hgt |-> FALSE, rng_hgt |-> FALSE,
             ev_hgt |-> FALSE, gnd_effect |-> FALSE, tilt_align |-> FALSE]
    /\ params = ParamsNominal
    /\ samples = SamplesNominal
    /\ velObsVarNE = <<One, One>>
    /\ hvelInnovGate = One
    /\ posObsNoiseNE = One
    /\ posInnovGateNE = One
    /\ R_rng_to_earth_2_2 = One
    /\ vel_pos_innov = [k \in Obs |-> Zero]
    /\ aux_vel_innov = <<Zero, Zero>>
    /\ vel_pos_innov_var = [k \in Obs |-> Zero]
    /\ vel_pos_test_ratio = [k \in Obs |-> Zero]
    /\ time_last_imu = 0
    /\ time_last_vel_fuse = 0 /\ time_last_pos_fuse = 0
    /\ time_last_delpos_fuse = 0 /\ time_last_hgt_fuse = 0
    /\ innov_check_fail_status =
            [reject_vel_NED |-> FALSE, reject_pos_NE |-> FALSE, reject_pos_D |-> FALSE]
    /\ fault_status = NoFaults
    /\ jake_debug_topic = FALSE
    /\ fuse_map = [k \in Obs |-> FALSE]
    /\ innov_check_pass_map = [k \in Obs |-> FALSE]
    /\ R = [k \in Obs |-> Zero]
    /\ gate_size = [k \in Obs |-> Zero]
    /\ innovation = [k \in Obs |-> Zero]
    /\ obs_index = 0
    /\ pc = "idle"
    /\ entry = NoCall
    /\ outcome = [k \in Obs |-> "none"]
    /\ ticks = 0

\* Between calls: the IMU time advances, the prediction step leaves a new
\* state, covariance and innovations, the sensor pipeline new samples, and
\* the control logic sets the one-shot requests and the control flags.
Caller ==
    /\ pc \in {"idle", "return"}
    /\ ticks < MaxTicks
    /\ ticks' = ticks + 1
    /\ time_last_imu' = time_last_imu + 1
    /\ fuse_hor_vel' \in BOOLEAN /\ fuse_hor_vel_aux' \in BOOLEAN
    /\ fuse_vert_vel' \in BOOLEAN /\ fuse_pos' \in BOOLEAN
    /\ fuse_height' \in BOOLEAN
    /\ \E pr \in Profiles(fuse_height') :
        /\ P' = pr.cov
        /\ x' = StateZero
        /\ fuse_hpos_as_odom' = pr.odom
        /\ vel_pos_innov' = [k \in Obs |-> IF k < 5 THEN pr.innov[k + 1]
                                           ELSE vel_pos_innov[5]]
        /\ aux_vel_innov' = pr.aux
        /\ control_status' = [control_status EXCEPT !.baro_hgt = pr.baro_hgt,
                                                    !.rng_hgt = pr.rng_hgt,
                                                    !.tilt_align = pr.tilt_align]
        /\ R_rng_to_earth_2_2' = pr.cos_tilt
        /\ samples' = [samples EXCEPT !.baro_hgt = pr.baro]
    /\ fuse_map' = [k \in Obs |-> FALSE]
    /\ innov_check_pass_map' = [k \in Obs |-> FALSE]
    /\ R' = [k \in Obs |-> Zero]
    /\ gate_size' = [k \in Obs |-> Zero]
    /\ innovation' = [k \in Obs |-> Zero]
    /\ obs_index' = 0
    /\ entry' = NoCall
    /\ outcome' = [k \in Obs |-> "none"]
    /\ pc' = "entry"
    /\ UNCHANGED <<params, velObsVarNE, hvelInnovGate, posObsNoiseNE, posInnovGateNE,
                   stamps, vel_pos_innov_var, vel_pos_test_ratio,
                   innov_check_fail_status, fault_status, jake_debug_topic>>

\* fuseVelPosHeight, lines 52-245: assembly, gate and ledger
Begin ==
    /\ pc = "entry"
    /\ entry' = [called |-> TRUE, P |-> P, x |-> x,
                 fuse_hor_vel |-> fuse_hor_vel, fuse_hor_vel_aux |-> fuse_hor_vel_aux,
                 fuse_vert_vel |-> fuse_vert_vel, fuse_pos |-> fuse_pos,
                 fuse_height |-> fuse_height,
                 time_last_vel_fuse |-> time_last_vel_fuse,
                 time_last_pos_fuse |-> time_last_pos_fuse,
                 time_last_delpos_fuse |-> time_last_delpos_fuse,
                 time_last_hgt_fuse |-> time_last_hgt_fuse,
                 reject |-> innov_check_fail_status,
                 fault |-> fault_status,
                 test_ratio |-> vel_pos_test_ratio,
                 innov |-> vel_pos_innov]
    /\ \E fm \in {[k \in Obs |-> FuseMap(k)]} :
       \E tr \in {[k \in Obs |-> TestRatio(k)]} :
       \E pm \in {InnovCheckPassMap(tr)} :
       \E vel \in {VelLedger(pm[0])} :
       \E pos \in {PosLedger(pm[3])} :
       \E hgt \in {HgtLedger(pm[5])} :
       \E n \in {NextSlot(fm, pm, 0)} :
        /\ fuse_map' = fm
        /\ R' = [k \in Obs |-> ObsVar(k)]
        /\ gate_size' = [k \in Obs |-> GateSize(k)]
        /\ innovation' = [k \in Obs |-> Innovation(k)]
        /\ vel_pos_innov_var' = [k \in Obs |-> InnovVar(k)]
        /\ vel_pos_test_ratio' = tr
        /\ innov_check_pass_map' = pm
        /\ time_last_vel_fuse' = vel.time
        /\ time_last_pos_fuse' = pos.pos
        /\ time_last_delpos_fuse' = pos.delpos
        /\ time_last_hgt_fuse' = hgt.time
        /\ innov_check_fail_status' =
                [reject_vel_NED |-> vel.reject,
                 reject_pos_NE |-> pos.reject,
                 reject_pos_D |-> hgt.reject]
        /\ obs_index' = n
        /\ pc' = IF n < 6 THEN "loop" ELSE "return"
        /\ outcome' = [k \in Obs |-> IF k < n THEN "skipped" ELSE "pending"]
    /\ vel_pos_innov' = PublishedInnov
    /\ jake_debug_topic' = (jake_debug_topic \/ fuse_height)
    /\ fuse_hor_vel' = ClearedRequests.fuse_hor_vel
    /\ fuse_hor_vel_aux' = ClearedRequests.fuse_hor_vel_aux
    /\ fuse_vert_vel' = ClearedRequests.fuse_vert_vel
    /\ fuse_pos' = ClearedRequests.fuse_pos
    /\ fuse_height' = ClearedRequests.fuse_height
    /\ UNCHANGED <<P, x, tuning, fault_status, ticks>>

\* fuseVelPosHeight, lines 247-340: the loop body for the next slot that is
\* not skipped, then on to the following one or out of the loop
Iterate ==
    /\ pc = "loop"
    /\ \E k \in {obs_index} :
       \E K \in {Kfusion(P, k)} :
       \E KHP \in {KHPof(P, K, k)} :
       \E h \in {HealthLoop([P |-> P, healthy |-> TRUE, fault |-> fault_status],
                            KHP, k, 0)} :
       \E n \in {NextSlot(fuse_map, innov_check_pass_map, k + 1)} :
           /\ P' = CorrectCovariance(h.P, KHP, h.healthy)
           /\ x' = CorrectState(x, K, innovation[k], h.healthy)
           /\ fault_status' = h.fault
           /\ outcome' = [j \in Obs |->
                            IF j = k THEN (IF h.healthy THEN "applied" ELSE "abandoned")
                            ELSE IF k < j /\ j < n THEN "skipped"
                            ELSE outcome[j]]
           /\ obs_index' = n
           /\ pc' = IF n < 6 THEN "loop" ELSE "return"
    /\ UNCHANGED <<requests, tuning, stamps, published, innov_check_fail_status,
                   jake_debug_topic, locals, entry, ticks>>

Next == Caller \/ Begin \/ Iterate

Spec == Init /\ [][Next]_vars

(***************************************************************************)
(* One call from a wide range of entry states: every combination of the    *)
(* height source flags, the smallest values the parameters and samples may *)
(* take, and the observation noise and gates the caller hands over.        *)
(***************************************************************************)
\* every noise and gate parameter at its lower end, zero
ParamsZero ==
    [gps_vel_noise |-> Zero, vel_innov_gate |-> Zero,
     baro_noise |-> Zero, baro_innov_gate |-> Zero,
     gps_pos_noise |-> Zero, pos_noaid_noise |-> Zero,
     range_noise |-> Zero, range_noise_scaler |-> Zero,
     rng_gnd_clearance |-> Zero, range_cos_max_tilt |-> Q(7, 10),
     range_innov_gate |-> Zero, ev_innov_gate |-> Zero,
     gnd_effect_deadzone |-> Zero]

\* height samples that differ by source (innovations: gps 5, range 0, ev 3);
\* the reported accuracies are `acc`
SamplesBySource(acc) ==
    [SamplesNominal EXCEPT !.gps_hgt = Q(15, 1), !.ev_posNED2 = Q(-13, 1),
                           !.gps_sacc = acc, !.gps_vacc = acc, !.ev_posErr = acc]

\* baro samples: raw innovations -2, -1/2, -1/4, 0 and 1
BaroCases == {Q(8, 1), Q(19, 2), Q(39, 4), Q(10, 1), Q(11, 1)}

\* a height request under every selection of sources
HeightEntry ==
    /\ fuse_hor_vel = FALSE /\ fuse_hor_vel_aux = FALSE /\ fuse_vert_vel = FALSE
    /\ fuse_pos = FALSE /\ fuse_height = TRUE
    /\ \E baro, gps, rng, ev, gnd \in BOOLEAN :
            control_status =
                [baro_hgt |-> baro, gps_hgt |-> gps, rng_hgt |-> rng, ev_hgt |-> ev,
                 gnd_effect |-> gnd, tilt_align |-> TRUE]
    /\ R_rng_to_earth_2_2 \in {Q(1, 2), One}
    /\ \E d \in {Zero, Q(1, 2)}, low \in BOOLEAN, b \in BaroCases :
        /\ params = [(IF low THEN ParamsZero ELSE ParamsNominal)
                        EXCEPT !.gnd_effect_deadzone = d]
        /\ samples = [SamplesBySource(IF low THEN Zero ELSE Q(2, 3))
                        EXCEPT !.baro_hgt = b]
    /\ velObsVarNE = <<One, One>> /\ hvelInnovGate = One
    /\ posObsNoiseNE = One /\ posInnovGateNE = One
    /\ P = CovHealthy
    /\ vel_pos_innov = [k \in Obs |-> IF k < 5 THEN Q(1, 2) ELSE Zero]
    /\ aux_vel_innov = <<Q(1, 4), Q(1, 4)>>

\* velocity and position requests with the observation noise and the gates
\* of slots 0, 1, 3 and 4 as small as a non-negative value can be, with and
\* without zero innovations, zero position variances and tilt alignment
TuningEntry ==
    /\ fuse_hor_vel \in BOOLEAN /\ fuse_hor_vel_aux = ~fuse_hor_vel
    /\ fuse_vert_vel = TRUE /\ fuse_pos = TRUE /\ fuse_height = FALSE
    /\ \E aligned \in BOOLEAN :
        control_status =
            [baro_hgt |-> TRUE, gps_hgt |-> FALSE, rng_hgt |-> FALSE,
             ev_hgt |-> FALSE, gnd_effect |-> FALSE, tilt_align |-> aligned]
    /\ P \in {CovHealthy, CovCollapsed}
    /\ \E v \in {Zero, Q(1, 2)} :
        /\ vel_pos_innov = [k \in Obs |-> IF k < 5 THEN v ELSE Zero]
        /\ aux_vel_innov = <<v, v>>
    /\ R_rng_to_earth_2_2 = One
    /\ \E low \in BOOLEAN :
        /\ params = IF low THEN ParamsZero ELSE ParamsNominal
        /\ samples = SamplesBySource(IF low THEN Zero ELSE Q(2, 3))
    /\ velObsVarNE \in {<<Zero, Zero>>, <<One, One>>}
    /\ hvelInnovGate \in {Zero, Q(1, 2), One}
    /\ posObsNoiseNE \in {Zero, One}
    /\ posInnovGateNE \in {Q(1, 2), One}

InitAssembly ==
    /\ HeightEntry \/ TuningEntry
    /\ x = StateZero
    /\ fuse_hpos_as_odom = FALSE
    /\ vel_pos_innov_var = [k \in Obs |-> Zero]
    /\ vel_pos_test_ratio = [k \in Obs |-> Zero]
    /\ time_last_imu = 1
    /\ time_last_vel_fuse = 0 /\ time_last_pos_fuse = 0
    /\ time_last_delpos_fuse = 0 /\ time_last_hgt_fuse = 0
    /\ innov_check_fail_status =
            [reject_vel_NED |-> FALSE, reject_pos_NE |-> FALSE, reject_pos_D |-> FALSE]
    /\ fault_status = NoFaults
    /\ jake_debug_topic = FALSE
    /\ fuse_map = [k \in Obs |-> FALSE]
    /\ innov_check_pass_map = [k \in Obs |-> FALSE]
    /\ R = [k \in Obs |-> Zero]
    /\ gate_size = [k \in Obs |-> Zero]
    /\ innovation = [k \in Obs |-> Zero]
    /\ obs_index = 0
    /\ pc = "entry"
    /\ entry = NoCall
    /\ outcome = [k \in Obs |-> "none"]
    /\ ticks = 1

NextAssembly == Begin \/ Iterate

SpecAssembly == InitAssembly /\ [][NextAssembly]_vars

(***************************************************************************)
(* Properties.  `entry` holds the values the call found, `outcome` what    *)
(* the updater did with each slot; pc = "return" is the exit of the call.  *)
(***************************************************************************)
\* the request tested at line 209, as it was on entry
VelRequested == entry.fuse_hor_vel \/ entry.fuse_hor_vel_aux \/ entry.fuse_vert_vel

\* the loop body of lines 253-339 ran for slot k
Processed(k) == outcome[k] \in {"applied", "abandoned"}

\* the indices for which the test of line 274 holds for slot k on covariance Pm
FailSet(Pm, k) ==
    UNION {{i \in States : GuardFails(Pm, KHP, i)} :
                KHP \in {KHPof(Pm, Kfusion(Pm, k), k)}}

\* lines 276-277 applied for every index in S
Zeroed(Pm, S) ==
    [row \in States |-> [column \in States |->
        IF row \in S \/ column \in S THEN Zero ELSE Pm[row][column]]]

\* C1: after every call, whatever the requests, the control flags, the gate
\* outcomes and the health of the covariance were, the five one-shot request
\* flags are all false.
C1_RequestsCleared ==
    pc = "return" =>
        /\ ~fuse_hor_vel /\ ~fuse_hor_vel_aux /\ ~fuse_vert_vel
        /\ ~fuse_pos /\ ~fuse_height

\* a call that found all five requests set and abandoned an update has returned
C1_AllRequestedReturned ==
    /\ pc = "return"
    /\ entry.fuse_hor_vel /\ entry.fuse_hor_vel_aux /\ entry.fuse_vert_vel
    /\ entry.fuse_pos /\ entry.fuse_height
    /\ \E k \in Obs : outcome[k] = "abandoned"

\* C2: in every tick the velocity group passes its gate if and only if every
\* velocity slot that is active in that tick has a test ratio of at most 1;
\* the ratios inactive slots keep from earlier ticks play no part.
C2_VelGateReadsActiveSlotsOnly ==
    pc \in {"loop", "return"} =>
        (innov_check_pass_map[0] <=>
            \A k \in {0, 1, 2} : fuse_map[k] => le(vel_pos_test_ratio[k], One))

\* C3: when height fusion is requested but slot 5 is not activated, no height
\* fusion happens, time_last_hgt_fuse keeps its value and reject_pos_D is
\* neither set nor cleared.
C3_InactiveHeightLeavesLedger ==
    (pc = "return" /\ entry.fuse_height /\ ~fuse_map[5]) =>
        /\ ~Processed(5)
        /\ time_last_hgt_fuse = entry.time_last_hgt_fuse
        /\ innov_check_fail_status.reject_pos_D = entry.reject.reject_pos_D

\* C4: once the updater has processed slot k, the slot's fault flag is true
\* if and only if some index failed the test P[i][i] < KHP[i][i] for that
\* slot (the update was abandoned).
C4_FaultFlagIffGuardFailed ==
    \A k \in Obs :
        Processed(k) => (FaultOf(fault_status, k) <=> outcome[k] = "abandoned")

\* C5: a call that finds all five request flags false leaves x and P as they
\* were and advances none of the four last-fuse timestamps, whatever test
\* ratios earlier ticks left behind.
C5_NoRequestNoEffect ==
    (pc = "return" /\ ~VelRequested /\ ~entry.fuse_pos /\ ~entry.fuse_height) =>
        /\ x = entry.x
        /\ P = entry.P
        /\ time_last_vel_fuse = entry.time_last_vel_fuse
        /\ time_last_pos_fuse = entry.time_last_pos_fuse
        /\ time_last_delpos_fuse = entry.time_last_delpos_fuse
        /\ time_last_hgt_fuse = entry.time_last_hgt_fuse

\* a call without requests has returned, after a tick that left a test ratio
\* above 1 and while the position gate passes
C5_IdleCallAfterOutlier ==
    /\ pc = "return"
    /\ ~VelRequested /\ ~entry.fuse_pos /\ ~entry.fuse_height
    /\ \E k \in Obs : lt(One, entry.test_ratio[k])
    /\ innov_check_pass_map[3]

\* C6: a gate rejection causes no state change: the slots of a requested
\* group that fails its gate are not handed to the updater, and when every
\* requested group fails, x and P leave the call as they entered it.
C6_RejectedGroupNotFused ==
    pc = "return" =>
        /\ (VelRequested /\ ~innov_check_pass_map[0]) =>
                \A k \in {0, 1, 2} : ~Processed(k)
        /\ (entry.fuse_pos /\ ~innov_check_pass_map[3]) =>
                \A k \in {3, 4} : ~Processed(k)
        /\ (entry.fuse_height /\ ~innov_check_pass_map[5]) => ~Processed(5)
        /\ ( /\ VelRequested \/ entry.fuse_pos \/ entry.fuse_height
             /\ VelRequested => ~innov_check_pass_map[0]
             /\ entry.fuse_pos => ~innov_check_pass_map[3]
             /\ entry.fuse_height => ~innov_check_pass_map[5] ) =>
                (x = entry.x /\ P = entry.P)

\* all three groups were requested with all six slots active, and all three
\* failed their gates
C6_AllGroupsRejected ==
    /\ pc = "return"
    /\ VelRequested /\ entry.fuse_pos /\ entry.fuse_height
    /\ \A k \in Obs : fuse_map[k]
    /\ ~innov_check_pass_map[0] /\ ~innov_check_pass_map[3] /\ ~innov_check_pass_map[5]

\* C7: when a requested group fails its gate (for the velocity group in
\* particular when an active velocity slot has a test ratio above 1), the
\* group's reject flag is true on return and the group's last-fuse timestamp
\* is the one the call found.
C7_RejectedGroupLedger ==
    pc = "return" =>
        /\ ( VelRequested
             /\ ( ~innov_check_pass_map[0]
                  \/ \E k \in {0, 1, 2} : fuse_map[k] /\ lt(One, vel_pos_test_ratio[k]) ) ) =>
                /\ innov_check_fail_status.reject_vel_NED
                /\ time_last_vel_fuse = entry.time_last_vel_fuse
        /\ (entry.fuse_pos /\ ~innov_check_pass_map[3]) =>
                /\ innov_check_fail_status.reject_pos_NE
                /\ time_last_pos_fuse = entry.time_last_pos_fuse
                /\ time_last_delpos_fuse = entry.time_last_delpos_fuse
        /\ (entry.fuse_height /\ ~innov_check_pass_map[5]) =>
                /\ innov_check_fail_status.reject_pos_D
                /\ time_last_hgt_fuse = entry.time_last_hgt_fuse

\* the velocity group fused in the first tick and is rejected in the second
\* for an outlier in the active slot 2, together with position and height
C7_RejectedAfterSuccess ==
    /\ pc = "return"
    /\ entry.time_last_vel_fuse = 1 /\ time_last_imu = 2
    /\ ~entry.reject.reject_vel_NED
    /\ VelRequested /\ fuse_map[2] /\ lt(One, vel_pos_test_ratio[2])
    /\ entry.fuse_pos /\ ~innov_check_pass_map[3]
    /\ entry.fuse_height /\ ~innov_check_pass_map[5]

\* C8: when the test P[i][i] < KHP[i][i] holds for some index of a slot, the
\* slot's update is abandoned: x is not changed, P changes only by the zeroing
\* of exactly the rows and columns of the failing indices (measured on P as it
\* was when KHP was formed), and every later active, gate-passed slot is still
\* processed before the call returns.
C8_UnhealthySlotAbandoned ==
    [][pc = "loop" =>
        \A F \in {FailSet(P, obs_index)} :
            /\ F # {} =>
                /\ outcome'[obs_index] = "abandoned"
                /\ x' = x
                /\ P' = Zeroed(P, F)
                /\ \A j \in Obs :
                      (j > obs_index /\ fuse_map[j] /\ innov_check_pass_map[j]) =>
                            outcome'[j] = "pending"
            /\ pc' = "return" =>
                \A j \in Obs :
                    (fuse_map[j] /\ innov_check_pass_map[j]) =>
                        outcome'[j] \in {"applied", "abandoned"}]_vars

\* slot 0 was abandoned for index 10, slot 1 applied after it, and slot 5
\* abandoned for the two indices 3 and 23
C8_AbandonedThenApplied ==
    /\ pc = "return"
    /\ outcome[0] = "abandoned" /\ outcome[1] = "applied" /\ outcome[5] = "abandoned"
    /\ P[10][10] = Zero /\ P[3][3] = Zero /\ P[23][23] = Zero
    /\ entry.P[10][10] # Zero /\ entry.P[3][3] # Zero /\ entry.P[23][23] # Zero

\* C9: P[i][i] >= 0 for every i when the call returns, for every covariance
\* the call can find (symmetric with non-negative diagonal) and every mix of
\* applied, abandoned and rejected slots.
C9_DiagonalNonNegative ==
    pc = "return" => \A i \in States : le(Zero, P[i][i])

\* C10: while tilt_align is false the position group and the height slot pass
\* their gates whatever their test ratios: an active slot 3, 4 or 5 is handed
\* to the updater, and a requested position or height fusion leaves
\* reject_pos_NE or reject_pos_D clear.
C10_UnalignedForcePass ==
    (pc = "return" /\ ~control_status.tilt_align) =>
        /\ \A k \in {3, 4, 5} : fuse_map[k] => Processed(k)
        /\ entry.fuse_pos => ~innov_check_fail_status.reject_pos_NE
        /\ entry.fuse_height => ~innov_check_fail_status.reject_pos_D

\* before tilt alignment, slots 4 and 5 were active with test ratios above 1
\* and went through the updater
C10_UnalignedOutliersFused ==
    /\ pc = "return" /\ ~control_status.tilt_align
    /\ entry.fuse_pos /\ entry.fuse_height
    /\ fuse_map[4] /\ lt(One, vel_pos_test_ratio[4]) /\ Processed(4)
    /\ fuse_map[5] /\ lt(One, vel_pos_test_ratio[5]) /\ Processed(5)

\* the height sources in the order of their tests, lines 100, 126, 139, 148
HgtSources == <<"baro", "gps", "rng", "ev">>

\* the control flag of height source src
HgtFlag(src) ==
    CASE src = "baro" -> control_status.baro_hgt
      [] src = "gps" -> control_status.gps_hgt
      [] src = "rng" -> control_status.rng_hgt
      [] src = "ev" -> control_status.ev_hgt

\* the whole condition of the branch of source src (line 139 for range)
HgtEligible(src) ==
    HgtFlag(src) /\ (src = "rng" => lt(params.range_cos_max_tilt, R_rng_to_earth_2_2))

\* slot 5 is active with the innovation, R and gate of source src
SuppliedBy(src) ==
    /\ fuse_map[5]
    /\ innovation[5] = HgtInnovOf(src, entry.x[9])
    /\ R[5] = HgtObsVarOf(src)
    /\ gate_size[5] = HgtGateOf(src)

\* C11 (as stated): with several height-source flags set and height
\* requested, the source that supplies slot 5 has its flag set, no source of
\* higher priority in baro > gps > range > ev has its flag set, and at most
\* one source contributes.
C11_PriorityByFlag ==
    (pc \in {"loop", "return"} /\ entry.fuse_height) =>
        /\ \A i \in 1..4 :
              SuppliedBy(HgtSources[i]) =>
                  /\ HgtFlag(HgtSources[i])
                  /\ \A j \in 1..(i - 1) : ~HgtFlag(HgtSources[j])
        /\ \A i, j \in 1..4 :
              (SuppliedBy(HgtSources[i]) /\ SuppliedBy(HgtSources[j])) => i = j

\* C11 (amended): slot 5 is supplied by the first source in the order baro,
\* gps, range, ev whose flag is set and, for range, whose tilt test
\* R_rng_to_earth_2_2 > range_cos_max_tilt holds; a range source that fails
\* the tilt test is passed over in favour of ev; with no such source slot 5
\* is inactive.
C11_PriorityByBranch ==
    (pc \in {"loop", "return"} /\ entry.fuse_height) =>
        /\ \A i \in 1..4 :
              SuppliedBy(HgtSources[i]) <=>
                  /\ HgtEligible(HgtSources[i])
                  /\ \A j \in 1..(i - 1) : ~HgtEligible(HgtSources[j])
        /\ fuse_map[5] <=> \E i \in 1..4 : HgtEligible(HgtSources[i])

\* range and ev are both selected, the tilt test fails and ev supplies slot 5
C11_TiltedRangeYieldsToEv ==
    /\ pc = "return" /\ entry.fuse_height
    /\ ~control_status.baro_hgt /\ ~control_status.gps_hgt
    /\ control_status.rng_hgt /\ control_status.ev_hgt
    /\ ~HgtEligible("rng")
    /\ SuppliedBy("ev") /\ ~SuppliedBy("rng")

\* C12: when a group is requested and passes its gate, its reject flag is
\* false on return and its last-fuse timestamp is the time of the tick; for
\* horizontal position exactly one timestamp is stamped, time_last_delpos_fuse
\* if fuse_hpos_as_odom is set and time_last_pos_fuse otherwise, and the
\* other one keeps its value.
C12_PassedGroupLedger ==
    pc = "return" =>
        /\ (VelRequested /\ innov_check_pass_map[0]) =>
                /\ ~innov_check_fail_status.reject_vel_NED
                /\ time_last_vel_fuse = time_last_imu
        /\ (entry.fuse_pos /\ innov_check_pass_map[3]) =>
                /\ ~innov_check_fail_status.reject_pos_NE
                /\ IF fuse_hpos_as_odom
                   THEN /\ time_last_delpos_fuse = time_last_imu
                        /\ time_last_pos_fuse = entry.time_last_pos_fuse
                   ELSE /\ time_last_pos_fuse = time_last_imu
                        /\ time_last_delpos_fuse = entry.time_last_delpos_fuse
        /\ (entry.fuse_height /\ innov_check_pass_map[5]) =>
                /\ ~innov_check_fail_status.reject_pos_D
                /\ time_last_hgt_fuse = time_last_imu

\* the second tick fuses position as odometry after the first stamped
\* time_last_pos_fuse, together with passing velocity and height groups
C12_OdometryAfterPosition ==
    /\ pc = "return" /\ time_last_imu = 2
    /\ entry.fuse_pos /\ innov_check_pass_map[3] /\ fuse_hpos_as_odom
    /\ entry.time_last_pos_fuse = 1 /\ time_last_pos_fuse = 1
    /\ entry.time_last_delpos_fuse = 0 /\ time_last_delpos_fuse = 2
    /\ VelRequested /\ innov_check_pass_map[0]
    /\ entry.fuse_height /\ innov_check_pass_map[5]

\* the raw baro innovation of line 103 for the state the call found
BaroRaw ==
    sub(sub(add(entry.x[9], samples.baro_hgt), samples.baro_hgt_offset),
        samples.hgt_sensor_offset)

\* C13: for baro height the innovation of slot 5 is, with gnd_effect set and
\* d = gnd_effect_deadzone >= 0, the raw innovation v for v >= 0, zero for
\* -d <= v <= 0 and v + d for v < -d, so it never has the sign opposite to
\* v; with gnd_effect clear it is v.
C13_DeadzoneShape ==
    (pc \in {"loop", "return"} /\ entry.fuse_height /\ control_status.baro_hgt) =>
        \E v \in {BaroRaw}, d \in {params.gnd_effect_deadzone} :
        \E e \in {IF ~control_status.gnd_effect THEN v
                  ELSE IF le(Zero, v) THEN v
                  ELSE IF le(neg(d), v) THEN Zero
                  ELSE add(v, d)} :
            /\ le(innovation[5], e) /\ le(e, innovation[5])
            /\ le(Zero, mul(v, innovation[5]))

\* a raw baro innovation of -2 was shifted by the deadzone of 1/2 to -3/2
C13_ShiftedBelowDeadzone ==
    /\ pc = "return" /\ entry.fuse_height /\ control_status.baro_hgt
    /\ control_status.gnd_effect
    /\ params.gnd_effect_deadzone = Q(1, 2)
    /\ BaroRaw = Q(-2, 1)
    /\ innovation[5] = Q(-3, 2)

\* C14: P is symmetric when the call returns if it was symmetric on entry
\* (every covariance the call finds is), whether slots were applied
\* (P - KHP) or abandoned with rows and columns zeroed.
C14_SymmetryPreserved ==
    pc = "return" =>
        \A i \in States : \A j \in (i + 1)..(k_num_states - 1) :
            \A d \in {sub(P[i][j], P[j][i])} : le(d, Zero) /\ le(Zero, d)

\* C15: every slot that is active in a tick has R >= 0.0001 and gate >= 1,
\* for all non-negative parameters and samples, so that the innovation
\* variance P[s][s] + R and the test-ratio denominator gate^2 * innov_var are
\* strictly positive.
C15_ObservationBounds ==
    pc \in {"loop", "return"} =>
        \A k \in Obs :
            fuse_map[k] =>
                /\ le(Q(1, 10000), R[k])
                /\ le(One, gate_size[k])
                /\ lt(Zero, vel_pos_innov_var[k])
                /\ lt(Zero, mul(sq(gate_size[k]), vel_pos_innov_var[k]))

\* C16: the published innovations vel_pos_innov[0..4] leave every call with
\* the values they entered it with, also when the auxiliary pair overrides
\* the horizontal velocity innovations used for gating and correction; only
\* vel_pos_innov[5] may be written, and only when fuse_height is requested.
C16_PublishedInnovPreserved ==
    pc \in {"loop", "return"} =>
        /\ \A k \in 0..4 : vel_pos_innov[k] = entry.innov[k]
        /\ ~entry.fuse_height => vel_pos_innov[5] = entry.innov[5]

\* the auxiliary pair supplied the innovation of slot 1, which differs from
\* the published one and was applied, and a height request wrote
\* vel_pos_innov[5]
C16_AuxOverrideReturned ==
    /\ pc = "return"
    /\ entry.fuse_hor_vel_aux /\ ~entry.fuse_hor_vel /\ entry.fuse_height
    /\ innovation[1] = aux_vel_innov[2] /\ innovation[1] # vel_pos_innov[1]
    /\ outcome[1] = "applied"
    /\ vel_pos_innov[5] # entry.innov[5]

\* C17 as stated: the gain column of the slot about to be processed is
\* computed from P as left by the previously processed slots of the tick,
\* never from the P seen on entry.
C17_GainFromCurrentCovariance ==
    pc = "loop" =>
        \A k \in {obs_index} :
            Kfusion(P, k) =
                [row \in States |-> div(P[row][k + 4], add(P[k + 4][k + 4], R[k]))]

\* C17: within one tick the accepted slots are processed strictly in the
\* order 0..5; the gain numerators P[r][s] and the decrement K[r] * P[s][c] of
\* each slot are read from P as left by the previously processed slots, while
\* the gain divisor is the innovation variance computed before the loop from
\* the P seen on entry.
C17_SequentialGain ==
    [][pc = "loop" =>
         \E k \in {obs_index} :
         \E K \in {[row \in States |-> div(P[row][k + 4], vel_pos_innov_var[k])]} :
            /\ fuse_map[k] /\ innov_check_pass_map[k]
            /\ \A j \in Obs : (j < k) <=> (outcome[j] # "pending")
            /\ vel_pos_innov_var[k] = add(entry.P[k + 4][k + 4], R[k])
            /\ outcome' # outcome =>
                /\ Processed(k)'
                /\ obs_index' > k
                /\ \A j \in Obs : k < j /\ j < obs_index' =>
                        ~(fuse_map[j] /\ innov_check_pass_map[j])
                /\ outcome'[k] = "applied" =>
                    /\ x' = [i \in States |-> add(x[i], mul(K[i], innovation[k]))]
                    /\ P' = fixCovarianceErrors(
                              [row \in States |-> [column \in States |->
                                 sub(P[row][column], mul(K[row], P[k + 4][column]))]])
      ]_vars

\* slot 0 was applied and changed P[9][9]; slot 5 is about to be processed
\* with a gain column that differs from the one the entry covariance gives
C17_LaterSlotSeesEarlierUpdate ==
    /\ pc = "loop" /\ obs_index = 5
    /\ outcome[0] = "applied"
    /\ P[9][9] # entry.P[9][9]
    /\ Kfusion(P, 5) # Kfusion(entry.P, 5)

\* C18: from the initial state on, whenever one of the test ratios of slots
\* 0..2 exceeds 1, reject_vel_NED is set; hence a call without a velocity
\* request returns reject_vel_NED as it found it.
C18_VelRejectFollowsRatio ==
    /\ (\E k \in 0..2 : lt(One, vel_pos_test_ratio[k])) =>
            innov_check_fail_status.reject_vel_NED
    /\ (pc \in {"loop", "return"} /\ ~VelRequested) =>
            innov_check_fail_status.reject_vel_NED = entry.reject.reject_vel_NED

\* a call without a velocity request met a test ratio above 1 left by an
\* earlier call: the velocity gate failed and reject_vel_NED stayed set
C18_StaleRatioKeepsReject ==
    /\ pc = "return" /\ ticks = 2
    /\ ~VelRequested
    /\ \E k \in 0..2 : lt(One, vel_pos_test_ratio[k])
    /\ ~innov_check_pass_map[0]
    /\ entry.reject.reject_vel_NED
    /\ innov_check_fail_status.reject_vel_NED

\* C19: a call that enters with all five request flags clear returns the
\* three reject flags as it found them, whatever the earlier calls and the
\* value of tilt_align in this and in earlier ticks.
C19_NoRequestKeepsRejectFlags ==
    (/\ pc \in {"loop", "return"}
     /\ ~VelRequested /\ ~entry.fuse_pos /\ ~entry.fuse_height) =>
        innov_check_fail_status = entry.reject

\* C20: within a call the fault flag of slot k differs from its value on
\* entry only if slot k was active, its group passed the gate and the loop
\* body ran for it; the flag of every other slot (not requested, not
\* activated, gate-rejected or not yet reached) keeps its previous value.
C20_FaultFlagFrame ==
    pc \in {"loop", "return"} =>
        \A k \in Obs :
            FaultOf(fault_status, k) # FaultOf(entry.fault, k) =>
                /\ fuse_map[k] /\ innov_check_pass_map[k]
                /\ Processed(k)

\* bad_pos_D was set by a degenerate height update of the first call; the
\* second call requested height, the gate rejected it, other slots were
\* processed, and bad_pos_D is still set
C20_FaultPersistsWhileRejected ==
    /\ pc = "return" /\ ticks = 2
    /\ entry.fault.bad_pos_D /\ fault_status.bad_pos_D
    /\ fuse_map[5] /\ ~innov_check_pass_map[5]
    /\ \E j \in 0..4 : Processed(j)

====
